---- MODULE Spec2Model ----
(***************************************************************************)
(* A model of src/main.py: the WebCrawler class (crawl / search).          *)
(*                                                                         *)
(* Strings.  A URL, an href or a text is a Python str.  It is modelled as  *)
(* a sequence of tokens, each token standing for a fixed piece of text.    *)
(* The URL tokens (EX, EVIL, EXT, ABOUT, FRAG, BAD) form a prefix-free     *)
(* code: no token is a prefix of another, so "s.startswith(p)" on the      *)
(* strings is exactly "the token sequence p is a prefix of the token       *)
(* sequence s", and string equality is sequence equality.  Texts are       *)
(* sequences of single characters.                                         *)
(*                                                                         *)
(* Python None and the empty str are both falsy and the code only ever     *)
(* tests truthiness of href and base_url (lines 31, 32, 33, 35), so both   *)
(* are the empty sequence.                                                 *)
(***************************************************************************)
EXTENDS Integers, Sequences, FiniteSets, TLC

VARIABLES
    visited,    \* self.visited: set of URL
    index,      \* self.index: insertion-ordered dict, as a sequence of [url, text]
    stack,      \* per thread: the Python call stack of crawl frames (top = last)
    call,       \* ghost, per thread: the current / last top-level crawl call:
                \* its arguments, the state it started in (visited0, index0,
                \* fetched0) and the seeds of the thread's earlier calls
    web,        \* ghost: the response requests.get returned for each URL fetched
    fetched,    \* ghost: the sequence of URLs passed to requests.get
    calls,      \* ghost: number of top-level crawl calls made so far
    results,    \* the list the caller holds from its last search call (the
                \* caller drops it when it calls crawl again)
    query,      \* ghost: the keyword and the index of that search call
    output      \* ghost: the argument of the caller's last call, when it was
                \* print_results, and the lines it passed to print

vars == <<visited, index, stack, call, web, fetched, calls, results, query,
          output>>

----------------------------------------------------------------------------
(* Bounds *)

MaxCalls == 2       \* top-level crawl calls per behaviour
MaxConcFetches == 2 \* requests.get calls per behaviour of concurrent threads

----------------------------------------------------------------------------
(* String tokens *)

EX    == "https://example.com"
EVIL  == ".evil.com"
EXT   == "https://external.com"
ABOUT == "/about"
FRAG  == "#frag"
BAD   == "http://["

None == <<>>

SchemeTokens == {EX, EXT, BAD}      \* "scheme://host" openers
AuthTokens   == {EX, EXT, BAD, EVIL} \* tokens that are part of scheme + netloc
FragTokens   == {FRAG}

Range(s) == {s[i] : i \in 1..Len(s)}

\* bool(x) for a str or None
Truthy(x) == x # <<>>

\* str.startswith
StartsWith(s, p) ==
    /\ Len(p) <= Len(s)
    /\ SubSeq(s, 1, Len(p)) = p

\* scheme + netloc of a URL: its longest prefix of authority tokens
Authority(u) ==
    LET n == CHOOSE k \in 0..Len(u) :
                 /\ \A i \in 1..k : u[i] \in AuthTokens
                 /\ (k < Len(u) => u[k + 1] \notin AuthTokens)
    IN  SubSeq(u, 1, n)

\* a URL without its "#fragment"
StripFragment(u) == SelectSeq(u, LAMBDA t : t \notin FragTokens)

\* urlparse raises ValueError("Invalid IPv6 URL") on an unmatched "["
UrljoinRaises(base, href) == BAD \in Range(base) \/ BAD \in Range(href)

\* a join that drops the fragment of what it resolves (urldefrag)
urljoinDefrag(base, href) ==
    StripFragment(IF ~Truthy(href) THEN base
                  ELSE IF ~Truthy(base) THEN href
                  ELSE IF href[1] \in SchemeTokens THEN href
                  ELSE Authority(base) \o href)

\* urllib.parse.urljoin(base, href), where it does not raise
urljoin(base, href) ==
    IF ~Truthy(href) THEN base
    ELSE IF ~Truthy(base) THEN href
    ELSE IF href[1] \in SchemeTokens THEN href
    ELSE IF href[1] \in FragTokens THEN StripFragment(base) \o href
    ELSE Authority(base) \o href

\* a base that is always the page the link was found on
EffectiveBasePage(base_url, url) == url

\* base_url or url
EffectiveBase(base_url, url) == IF Truthy(base_url) THEN base_url ELSE url

----------------------------------------------------------------------------
(* Texts and search *)

\* str.lower on one character
LowerChar(c) ==
    CASE c = "K" -> "k"
      [] c = "E" -> "e"
      [] c = "Y" -> "y"
      [] OTHER   -> c

\* str.lower
Lower(s) == [i \in 1..Len(s) |-> LowerChar(s[i])]

\* the "in" operator on two str: sub is a substring of s
Contains(s, sub) ==
    \E i \in 0..(Len(s) - Len(sub)) : SubSeq(s, i + 1, i + Len(sub)) = sub

\* a test that lowers neither side
MatchesCaseSensitive(keyword, text) == Contains(text, keyword)

\* the loop body's test of search
Matches(keyword, text) == Contains(Lower(text), Lower(keyword))

RECURSIVE SearchFrom(_, _, _)
\* the for loop of search over index.items(), from position i on
SearchFrom(idx, keyword, i) ==
    IF i > Len(idx) THEN <<>>
    ELSE (IF Matches(keyword, idx[i].text) THEN <<idx[i].url>> ELSE <<>>)
         \o SearchFrom(idx, keyword, i + 1)

\* WebCrawler.search
search(idx, keyword) == SearchFrom(idx, keyword, 1)

----------------------------------------------------------------------------
(* The content index: an insertion-ordered dict *)

IndexKeys(idx) == {idx[i].url : i \in 1..Len(idx)}

\* self.index[url] = text: overwrite in place, or append a new key
IndexPut(idx, url, text) ==
    IF url \in IndexKeys(idx)
    THEN [i \in 1..Len(idx) |->
             IF idx[i].url = url THEN [url |-> url, text |-> text] ELSE idx[i]]
    ELSE Append(idx, [url |-> url, text |-> text])

\* self.index[url] for a key of the index
IndexGet(idx, url) ==
    LET i == CHOOSE j \in 1..Len(idx) : idx[j].url = url IN idx[i].text

----------------------------------------------------------------------------
(* The environment: what requests.get and BeautifulSoup can yield *)

\* documents: the text of soup.get_text() and the href of each <a>, in
\* document order (None for an <a> without href)
HomeDoc   == [text  |-> <<"K", "E", "Y">>,
              hrefs |-> << <<ABOUT>>, <<EXT>>, <<ABOUT, FRAG>> >>]
LeafDoc   == [text  |-> <<"n", "o">>, hrefs |-> << >>]
CycleDoc  == [text  |-> <<"a", "k", "e", "y">>,
              hrefs |-> << <<EX>>, <<ABOUT>> >>]
AnchorDoc == [text  |-> <<"$", " ", "&">>,
              hrefs |-> << None, <<FRAG>>, <<EX, EVIL>> >>]
BrokenDoc == [text  |-> <<"k", "E">>,
              hrefs |-> << <<ABOUT, FRAG>>, <<BAD>>, <<ABOUT>> >>]

Docs == {HomeDoc, LeafDoc, CycleDoc, AnchorDoc, BrokenDoc}

\* requests.get(url) returns a parsable page, or it raises (no response),
\* or raise_for_status raises on a bad status (the body is never read), or
\* BeautifulSoup raises on what came back
Responses ==
    {[status |-> "ok", body |-> d] : d \in Docs}
    \cup {[status |-> "ConnectionError", body |-> LeafDoc],
          [status |-> "HTTPError",       body |-> HomeDoc],
          [status |-> "ParseError",      body |-> CycleDoc]}

\* the statuses that raise requests.exceptions.RequestException
RequestExceptions == {"ConnectionError", "HTTPError"}

Seeds    == {<<EX>>, <<EX, ABOUT>>}
BaseArgs == {None, <<EX>>}
Keywords == {<< >>, <<"k", "e", "y">>, <<"K", "e">>, <<"$", " ", "&">>, <<"z">>}

Threads == {1}

----------------------------------------------------------------------------
(* Frames of crawl *)

Frame(url, base_url) ==
    [url |-> url, base_url |-> base_url, pc |-> "check", links |-> <<>>, i |-> 1]

Top(t)  == stack[t][Len(stack[t])]
Idle(t) == stack[t] = <<>>
At(t, pc) == ~Idle(t) /\ Top(t).pc = pc

\* the call stack after the top frame returns
Popped(s) == SubSeq(s, 1, Len(s) - 1)

\* the call stack with the top frame replaced
Replaced(s, f) == [s EXCEPT ![Len(s)] = f]

Return(t) == stack' = [stack EXCEPT ![t] = Popped(stack[t])]

\* no except clause: the exception unwinds every crawl frame of the thread
Uncaught(t) == stack' = [stack EXCEPT ![t] = <<>>]

\* lines 38-41: the except clauses log the error; crawl then returns None
Caught(t) == Return(t)

Goto(t, pc) ==
    stack' = [stack EXCEPT ![t] = Replaced(stack[t], [Top(t) EXCEPT !.pc = pc])]

----------------------------------------------------------------------------
(* Initial state: WebCrawler() *)

NoCall == [seed |-> None, base_url |-> None, visited0 |-> {}, index0 |-> <<>>,
           fetched0 |-> 0, earlier |-> {}]

NoQuery == [made |-> FALSE, keyword |-> <<>>, index |-> <<>>]

NoOutput == [made |-> FALSE, arg |-> <<>>, lines |-> <<>>]

Init ==
    /\ visited = {}
    /\ index = <<>>
    /\ stack = [t \in Threads |-> <<>>]
    /\ call = [t \in Threads |-> NoCall]
    /\ web = [u \in {} |-> LeafDoc]
    /\ fetched = <<>>
    /\ calls = 0
    /\ results = <<>>
    /\ query = NoQuery
    /\ output = NoOutput

----------------------------------------------------------------------------
(* crawl *)

\* a crawl call that starts its session with an empty visited set
CrawlResets(t, url, base_url) ==
    /\ Idle(t)
    /\ calls < MaxCalls
    /\ stack' = [stack EXCEPT ![t] = <<Frame(url, base_url)>>]
    /\ call' = [call EXCEPT ![t] = [seed |-> url, base_url |-> base_url,
                                    visited0 |-> {}, index0 |-> index,
                                    fetched0 |-> Len(fetched),
                                    earlier |-> IF call[t] = NoCall THEN {}
                                                ELSE call[t].earlier \cup {call[t].seed}]]
    /\ calls' = calls + 1
    /\ results' = <<>>
    /\ query' = NoQuery
    /\ output' = NoOutput
    /\ visited' = {}
    /\ UNCHANGED <<index, web, fetched>>

\* a caller invokes crawler.crawl(url, base_url)
Crawl(t, url, base_url) ==
    /\ Idle(t)
    /\ calls < MaxCalls
    /\ stack' = [stack EXCEPT ![t] = <<Frame(url, base_url)>>]
    /\ call' = [call EXCEPT ![t] = [seed |-> url, base_url |-> base_url,
                                    visited0 |-> visited, index0 |-> index,
                                    fetched0 |-> Len(fetched),
                                    earlier |-> IF call[t] = NoCall THEN {}
                                                ELSE call[t].earlier \cup {call[t].seed}]]
    /\ calls' = calls + 1
    /\ results' = <<>>
    /\ query' = NoQuery
    /\ output' = NoOutput
    /\ UNCHANGED <<visited, index, web, fetched>>

\* a guard that consults the index instead of the visited set
AlreadyIndexed(v, url) == url \in IndexKeys(index)

\* line 15: url in self.visited
AlreadyVisited(v, url) == url \in v

\* the URL is not recorded
VisitedAddNothing(v, url) == v

\* line 20: self.visited.add(url)
VisitedAdd(v, url) == v \cup {url}

\* lines 15-17: the guard; an already visited URL returns at once
CheckVisited(t) ==
    /\ At(t, "check")
    /\ IF AlreadyVisited(visited, Top(t).url) THEN Return(t) ELSE Goto(t, "add")
    /\ UNCHANGED <<visited, index, call, web, fetched, calls, results, query, output>>

\* lines 19-20
AddVisited(t) ==
    /\ At(t, "add")
    /\ visited' = VisitedAdd(visited, Top(t).url)
    /\ Goto(t, "get")
    /\ UNCHANGED <<index, call, web, fetched, calls, results, query, output>>

\* the ghost record of a requests.get call
Served(url, r) ==
    /\ fetched' = Append(fetched, url)
    /\ web' = [u \in DOMAIN web \cup {url} |-> IF u = url THEN r ELSE web[u]]

\* lines 23-26 when nothing raises: index the text, keep soup.find_all('a')
FetchOk(t) ==
    /\ At(t, "get")
    /\ \E r \in Responses :
        /\ r.status = "ok"
        /\ Served(Top(t).url, r)
        /\ index' = IndexPut(index, Top(t).url, r.body.text)
        /\ stack' = [stack EXCEPT ![t] = Replaced(stack[t],
                        [Top(t) EXCEPT !.pc = "loop", !.links = r.body.hrefs, !.i = 1])]
    /\ UNCHANGED <<visited, call, calls, results, query, output>>

\* the text is indexed before raise_for_status is looked at
FetchFailsIndexed(t) ==
    /\ At(t, "get")
    /\ \E r \in Responses :
        /\ r.status # "ok"
        /\ Served(Top(t).url, r)
        /\ index' = IF r.status = "HTTPError"
                     THEN IndexPut(index, Top(t).url, r.body.text)
                     ELSE index
    /\ Caught(t)
    /\ UNCHANGED <<visited, call, calls, results, query, output>>

\* a failed URL is taken out of the visited set again
FetchFailsUnmarks(t) ==
    /\ At(t, "get")
    /\ \E r \in Responses :
        /\ r.status # "ok"
        /\ Served(Top(t).url, r)
    /\ visited' = visited \ {Top(t).url}
    /\ Caught(t)
    /\ UNCHANGED <<index, call, calls, results, query, output>>

\* lines 23-25 raise; lines 38-41 log the error and crawl returns
FetchFails(t) ==
    /\ At(t, "get")
    /\ \E r \in Responses :
        /\ r.status # "ok"
        /\ Served(Top(t).url, r)
    /\ Caught(t)
    /\ UNCHANGED <<visited, index, call, calls, results, query, output>>

\* the href of the link the for loop of line 29 is at
Href(f) == f.links[f.i]

\* a scope test that lets every link through
InScopeAlways(href, base) == TRUE

\* line 33: href.startswith(base_url or url)
InScope(href, base) == StartsWith(href, base)

AtLink(t) == At(t, "loop") /\ Top(t).i <= Len(Top(t).links)

NextLink(t) ==
    stack' = [stack EXCEPT ![t] = Replaced(stack[t], [Top(t) EXCEPT !.i = @ + 1])]

\* line 29: the links are exhausted, crawl returns
LoopEnd(t) ==
    /\ At(t, "loop")
    /\ Top(t).i > Len(Top(t).links)
    /\ Return(t)
    /\ UNCHANGED <<visited, index, call, web, fetched, calls, results, query, output>>

\* lines 30-31: an <a> with no (or an empty) href is passed over
LoopNoHref(t) ==
    /\ AtLink(t)
    /\ ~Truthy(Href(Top(t)))
    /\ NextLink(t)
    /\ UNCHANGED <<visited, index, call, web, fetched, calls, results, query, output>>

\* line 32 raises ValueError; lines 40-41 log it and crawl returns
LoopRaises(t) ==
    /\ AtLink(t)
    /\ Truthy(Href(Top(t)))
    /\ UrljoinRaises(EffectiveBase(Top(t).base_url, Top(t).url), Href(Top(t)))
    /\ Caught(t)
    /\ UNCHANGED <<visited, index, call, web, fetched, calls, results, query, output>>

\* lines 32-35: an internal link is crawled, with the same base, before the
\* loop goes on
LoopInternal(t) ==
    /\ AtLink(t)
    /\ Truthy(Href(Top(t)))
    /\ LET base == EffectiveBase(Top(t).base_url, Top(t).url)
           href == urljoin(base, Href(Top(t)))
       IN  /\ ~UrljoinRaises(base, Href(Top(t)))
           /\ InScope(href, base)
           /\ stack' = [stack EXCEPT ![t] =
                  Append(Replaced(stack[t], [Top(t) EXCEPT !.i = @ + 1]),
                         Frame(href, base))]
    /\ UNCHANGED <<visited, index, call, web, fetched, calls, results, query, output>>

\* lines 36-37: an external link is only logged
LoopExternal(t) ==
    /\ AtLink(t)
    /\ Truthy(Href(Top(t)))
    /\ LET base == EffectiveBase(Top(t).base_url, Top(t).url)
       IN  /\ ~UrljoinRaises(base, Href(Top(t)))
           /\ ~InScope(urljoin(base, Href(Top(t))), base)
    /\ NextLink(t)
    /\ UNCHANGED <<visited, index, call, web, fetched, calls, results, query, output>>

\* a search that looks the keyword up in the defaultdict, which inserts it
SearchInserts(t, keyword) ==
    /\ Idle(t)
    /\ results' = search(index, keyword)
    /\ query' = [made |-> TRUE, keyword |-> keyword, index |-> index]
    /\ output' = NoOutput
    /\ index' = IndexPut(index, keyword, <<>>)
    /\ UNCHANGED <<visited, stack, call, web, fetched, calls>>

\* a caller invokes crawler.search(keyword)
Search(t, keyword) ==
    /\ Idle(t)
    /\ results' = search(index, keyword)
    /\ query' = [made |-> TRUE, keyword |-> keyword, index |-> index]
    /\ output' = NoOutput
    /\ UNCHANGED <<visited, index, stack, call, web, fetched, calls>>

\* the texts print_results passes to print
HEADER     == "Search results:"
BULLET     == "- "
NONE_FOUND == "No results found."

\* lines 53-54: print(f"- {result}") for each result
Bullets(res) == [i \in 1..Len(res) |-> <<BULLET>> \o res[i]]

\* print_results that prints the heading whatever the list
PrintLinesHeaderAlways(res) == << <<HEADER>> >> \o Bullets(res)

\* lines 51-56: the lines print_results prints for a list
PrintLines(res) ==
    IF res # <<>> THEN << <<HEADER>> >> \o Bullets(res)
    ELSE << <<NONE_FOUND>> >>

\* a caller invokes crawler.print_results(results) on the list it holds
PrintResults(t) ==
    /\ Idle(t)
    /\ output' = [made |-> TRUE, arg |-> results, lines |-> PrintLines(results)]
    /\ UNCHANGED <<visited, index, stack, call, web, fetched, calls, results,
                   query>>

Next ==
    \E t \in DOMAIN stack :
        \/ \E url \in Seeds, base_url \in BaseArgs : Crawl(t, url, base_url)
        \/ CheckVisited(t)
        \/ AddVisited(t)
        \/ FetchOk(t)
        \/ FetchFails(t)
        \/ LoopEnd(t)
        \/ LoopNoHref(t)
        \/ LoopRaises(t)
        \/ LoopInternal(t)
        \/ LoopExternal(t)
        \/ \E keyword \in Keywords : Search(t, keyword)
        \/ PrintResults(t)

Spec == Init /\ [][Next]_vars

\* a step of a crawl call under way: the interpreter runs the thread on, and
\* every requests.get call returns or raises
CrawlStep(t) ==
    \/ CheckVisited(t)
    \/ AddVisited(t)
    \/ FetchOk(t)
    \/ FetchFails(t)
    \/ LoopEnd(t)
    \/ LoopNoHref(t)
    \/ LoopRaises(t)
    \/ LoopInternal(t)
    \/ LoopExternal(t)

FairSpec == Spec /\ \A t \in Threads : WF_vars(CrawlStep(t))

\* two threads of one program share the crawler; the interpreter may switch
\* threads between any two statements, so between line 15 and line 20
ConcThreads == {1, 2}

ConcInit ==
    /\ visited = {}
    /\ index = <<>>
    /\ stack = [t \in ConcThreads |-> <<>>]
    /\ call = [t \in ConcThreads |-> NoCall]
    /\ web = [u \in {} |-> LeafDoc]
    /\ fetched = <<>>
    /\ calls = 0
    /\ results = <<>>
    /\ query = NoQuery
    /\ output = NoOutput

\* the crawl calls of the threads, interleaved statement by statement
ConcNext ==
    \E t \in DOMAIN stack :
        \/ \E url \in Seeds, base_url \in BaseArgs : Crawl(t, url, base_url)
        \/ CheckVisited(t)
        \/ AddVisited(t)
        \/ Len(fetched) < MaxConcFetches /\ FetchOk(t)
        \/ Len(fetched) < MaxConcFetches /\ FetchFails(t)
        \/ LoopEnd(t)
        \/ LoopNoHref(t)
        \/ LoopRaises(t)
        \/ LoopInternal(t)
        \/ LoopExternal(t)

ConcSpec == ConcInit /\ [][ConcNext]_vars

----------------------------------------------------------------------------
(* Vocabulary of the properties *)

Quiet == \A t \in DOMAIN stack : Idle(t)

Succeeded(u) == u \in DOMAIN web /\ web[u].status = "ok"
Failed(u)    == u \in DOMAIN web /\ web[u].status # "ok"

\* the URLs requests.get was called with since the thread's call began
FetchedSince(t) == {fetched[i] : i \in (call[t].fetched0 + 1)..Len(fetched)}

\* thread t has made a crawl call and it has returned
Returned(t) == Idle(t) /\ call[t] # NoCall

\* the scope prefix of the thread's crawl call
CallBase(t) == EffectiveBase(call[t].base_url, call[t].seed)

\* the hrefs of a document that resolve against base, resolved
Resolved(doc, base) ==
    {urljoin(base, h) :
        h \in {x \in Range(doc.hrefs) : Truthy(x) /\ ~UrljoinRaises(base, x)}}

\* the in-scope links of the page the crawler got for u (none if it got none)
InScopeLinks(u, base) ==
    IF Succeeded(u)
    THEN {r \in Resolved(web[u].body, base) : StartsWith(r, base)}
    ELSE {}

\* the external links of that page
ExternalLinks(u, base) ==
    IF Succeeded(u)
    THEN {r \in Resolved(web[u].body, base) : ~StartsWith(r, base)}
    ELSE {}

RECURSIVE Reachable(_, _)
\* the least set that holds R and the in-scope links of its pages
Reachable(R, base) ==
    LET R2 == R \cup UNION {InScopeLinks(u, base) : u \in R}
    IN  IF R2 = R THEN R ELSE Reachable(R2, base)

\* thread t has marked u visited (line 20) and not yet run lines 23-26 for it
InFlight(t, u) == At(t, "get") /\ Top(t).url = u

----------------------------------------------------------------------------
(* C1: over any sequence of crawl calls on one crawler, with any seeds,   *)
(* links and fetch outcomes, no URL is passed to requests.get twice: a    *)
(* visited URL is not fetched again and a failed URL is not retried.      *)
C1_FetchedAtMostOnce ==
    \A i, j \in 1..Len(fetched) : fetched[i] = fetched[j] => i = j

\* a second crawl call, of a URL an earlier call had visited, has returned,
\* after a fetch that failed and a link back to a visited page
C1_Witness ==
    /\ Quiet
    /\ calls = 2
    /\ call[1].seed \in call[1].visited0
    /\ Len(fetched) >= 3
    /\ \E u \in DOMAIN web : Failed(u)
    /\ \E u \in DOMAIN web : Succeeded(u) /\ web[u].body = CycleDoc

----------------------------------------------------------------------------
(* C2: when the one crawl(seed) call made on a fresh crawler has returned, *)
(* the visited set is exactly the seed plus every URL reachable from it    *)
(* through in-scope links of the pages the crawler got.                    *)
C2_VisitedIffReachable ==
    \A t \in DOMAIN stack :
        (Returned(t) /\ calls = 1)
            => visited = Reachable({call[t].seed}, CallBase(t))

----------------------------------------------------------------------------
(* C3, as claimed: in every state the keys of the index are the URLs whose *)
(* fetch and parse succeeded, and a URL without an index entry is not      *)
(* visited or has failed.                                                  *)
C3_IndexIffSucceeded ==
    /\ IndexKeys(index) = {u \in DOMAIN web : Succeeded(u)}
    /\ \A u \in visited : u \notin IndexKeys(index) => Failed(u)

(* C3, amended: in every state the keys of the index are the URLs whose    *)
(* fetch and parse succeeded, and a URL without an index entry is not      *)
(* visited, or has failed, or is the URL just marked visited (line 20)     *)
(* whose fetch, parse and index write (lines 23-26) are not done yet.      *)
C3_IndexIffSucceededOrInFlight ==
    /\ IndexKeys(index) = {u \in DOMAIN web : Succeeded(u)}
    /\ \A u \in visited :
          u \notin IndexKeys(index)
              => Failed(u) \/ \E t \in DOMAIN stack : InFlight(t, u)

\* between calls: a page is indexed, one failed on a bad status, one failed
\* without a response, and each failed page is visited and has no entry
C3_Witness ==
    /\ Quiet
    /\ Len(index) >= 2
    /\ \E u \in visited : Failed(u) /\ web[u].status = "HTTPError"
                                    /\ u \notin IndexKeys(index)
    /\ \E u \in visited : Failed(u) /\ web[u].status = "ParseError"
                                    /\ u \notin IndexKeys(index)

----------------------------------------------------------------------------
(* C4: all through a crawl call, every URL the call adds to the visited    *)
(* set, passes to requests.get or adds to the index is the seed or starts  *)
(* with the scope prefix: an external link is never marked, fetched or     *)
(* indexed, at any depth.                                                  *)
C4_ExternalNeverCrawled ==
    \A t \in DOMAIN stack :
        call[t] # NoCall =>
            \A u \in (visited \ call[t].visited0) \cup FetchedSince(t)
                     \cup (IndexKeys(index) \ IndexKeys(call[t].index0)) :
                u = call[t].seed \/ StartsWith(u, CallBase(t))

\* a call has returned that found an external link on the seed's page and
\* one on a page below it, and none of them is visited, fetched or indexed
C4_Witness ==
    \E t \in DOMAIN stack :
        /\ Returned(t)
        /\ ExternalLinks(call[t].seed, CallBase(t)) # {}
        /\ \E u \in FetchedSince(t) \ {call[t].seed} :
               ExternalLinks(u, CallBase(t)) # {}
        /\ \A u \in FetchedSince(t) :
               ExternalLinks(u, CallBase(t))
                   \cap (visited \cup Range(fetched) \cup IndexKeys(index)) = {}

----------------------------------------------------------------------------
(* C5: when the fetch or the parse of the crawled URL fails, crawl returns *)
(* to its caller, which goes on where it was; the URL stays visited, the   *)
(* index is not written, no frame is entered for a link of that URL; and   *)
(* if it is the seed of the first call on a fresh crawler, the visited set *)
(* is then {seed} and the index is empty.                                  *)
C5_FailureReturnsNormally ==
    [][\A t \in DOMAIN stack :
          (/\ At(t, "get")
           /\ Len(fetched') = Len(fetched) + 1
           /\ web'[Top(t).url].status # "ok")
          => /\ stack'[t] = Popped(stack[t])
             /\ visited' = visited
             /\ Top(t).url \in visited'
             /\ index' = index
             /\ Top(t).url \notin IndexKeys(index')
             /\ (Len(stack[t]) = 1 /\ calls = 1)
                   => (visited' = {call[t].seed} /\ index' = <<>>)]_vars

\* the first call, on the fresh crawler, failed at its seed; the second call
\* got a page and has returned although fetches below that page failed
C5_Witness ==
    \E t \in DOMAIN stack :
        /\ Returned(t)
        /\ calls = 2
        /\ call[t].visited0 = call[t].earlier
        /\ call[t].index0 = <<>>
        /\ \A u \in call[t].earlier : Failed(u)
        /\ Succeeded(call[t].seed)
        /\ \E u \in FetchedSince(t) : Failed(u) /\ web[u].status = "ParseError"
        /\ \E u \in FetchedSince(t) : Failed(u) /\ web[u].status = "ConnectionError"
        /\ IndexKeys(index) = {u \in FetchedSince(t) : Succeeded(u)}

----------------------------------------------------------------------------
(* C6: when a page P returns from its loop and the crawl of one of its     *)
(* in-scope links Li had failed, every later in-scope link Lj of P is      *)
(* visited: the failure did not keep the rest of P's links from being      *)
(* crawled.  The same holds of every ancestor, at its own return.          *)
C6_LaterLinksStillCrawled ==
    [][\A t \in DOMAIN stack :
          (At(t, "loop") /\ stack'[t] = Popped(stack[t]))
          => LET f    == Top(t)
                 base == EffectiveBase(f.base_url, f.url)
                 Link(k) == /\ Truthy(f.links[k])
                            /\ ~UrljoinRaises(base, f.links[k])
                            /\ StartsWith(urljoin(base, f.links[k]), base)
             IN  \A i, j \in 1..Len(f.links) :
                    (/\ i < j
                     /\ Link(i)
                     /\ Failed(urljoin(base, f.links[i]))
                     /\ Link(j))
                    => urljoin(base, f.links[j]) \in visited']_vars

----------------------------------------------------------------------------
(* C7: once crawl(seed) has returned, a later crawl(seed) on the same      *)
(* crawler fetches nothing and leaves the visited set and the index as     *)
(* they were when it was called.                                           *)
C7_CrawlIdempotent ==
    \A t \in DOMAIN stack :
        (call[t] # NoCall /\ call[t].seed \in call[t].earlier)
            => /\ Len(fetched) = call[t].fetched0
               /\ visited = call[t].visited0
               /\ index = call[t].index0

\* the second crawl of a seed has returned; the first had indexed pages and
\* had met a failure
C7_Witness ==
    \E t \in DOMAIN stack :
        /\ Returned(t)
        /\ call[t].seed \in call[t].earlier
        /\ Len(index) >= 2
        /\ \E u \in visited : Failed(u)

----------------------------------------------------------------------------
(* C8: search(keyword) returns exactly the keys of the index whose lowered *)
(* text contains the lowered keyword, each once, in the order of the       *)
(* index; the empty keyword returns every key and the empty index nothing. *)

\* the position of a key in an index
IndexPos(idx, u) == CHOOSE i \in 1..Len(idx) : idx[i].url = u

C8_SearchExact ==
    query.made =>
        /\ \A i \in 1..Len(query.index) :
              (query.index[i].url \in Range(results))
                  <=> Contains(Lower(query.index[i].text), Lower(query.keyword))
        /\ Range(results) \subseteq IndexKeys(query.index)
        /\ \A i, j \in 1..Len(results) :
              i < j => IndexPos(query.index, results[i])
                           < IndexPos(query.index, results[j])
        /\ (query.keyword = <<>>) => Len(results) = Len(query.index)
        /\ (query.index = <<>>) => results = <<>>

\* a search whose keyword has an upper-case letter found two pages, one
\* through a letter of the other case, and passed over a third
C8_Witness ==
    /\ query.made
    /\ query.keyword = <<"K", "e">>
    /\ Len(results) >= 2
    /\ Len(query.index) > Len(results)
    /\ \E i \in 1..Len(query.index) :
          /\ query.index[i].url \in Range(results)
          /\ ~Contains(query.index[i].text, query.keyword)

----------------------------------------------------------------------------
(* C9: when the crawl call made on a fresh crawler has returned, every URL *)
(* reachable from the seed through in-scope links of successfully fetched  *)
(* pages is visited.                                                       *)
C9_ReachableAllVisited ==
    \A t \in DOMAIN stack :
        (Returned(t) /\ calls = 1)
            => \A u \in Reachable({call[t].seed}, CallBase(t)) : u \in visited

\* under fairness every crawl call returns, whatever the links and failures
C9_Terminates == \A t \in Threads : (~Idle(t)) ~> Idle(t)

----------------------------------------------------------------------------
(* C10: when crawl("https://example.com") has returned and the seed's page *)
(* had the links /about, https://external.com and /about#frag, the URLs    *)
(* https://example.com, https://example.com/about and                      *)
(* https://example.com/about#frag are visited and each was fetched, and    *)
(* https://external.com is not visited.                                    *)
C10_FragmentIsDistinctTarget ==
    \A t \in DOMAIN stack :
        (/\ Returned(t)
         /\ call[t].seed = <<EX>>
         /\ <<EX>> \in FetchedSince(t)
         /\ Succeeded(<<EX>>)
         /\ web[<<EX>>].body = HomeDoc)
        => /\ {<<EX>>, <<EX, ABOUT>>, <<EX, ABOUT, FRAG>>} \subseteq visited
           /\ {<<EX>>, <<EX, ABOUT>>, <<EX, ABOUT, FRAG>>} \subseteq Range(fetched)
           /\ <<EXT>> \notin visited

\* the scenario on a fresh crawler: the seed's page had the three links and
\* the call fetched the three URLs and has returned
C10_Witness ==
    \E t \in DOMAIN stack :
        /\ Returned(t)
        /\ calls = 1
        /\ call[t].seed = <<EX>>
        /\ Succeeded(<<EX>>)
        /\ web[<<EX>>].body = HomeDoc
        /\ fetched = << <<EX>>, <<EX, ABOUT>>, <<EX, ABOUT, FRAG>> >>

----------------------------------------------------------------------------
(* C11: a fragment-only link ("#section") of a crawled page is not         *)
(* crawled: the crawl call entered for it, if any, never gets past the     *)
(* visited guard, so no URL is marked and nothing is fetched for it.       *)

\* the href through which frame k of a stack entered frame k + 1
EnteredBy(s, k) == s[k].links[s[k].i - 1]

C11_AnchorNotCrawled ==
    \A t \in DOMAIN stack :
        \A k \in 1..(Len(stack[t]) - 1) :
            EnteredBy(stack[t], k)[1] \in FragTokens
                => stack[t][k + 1].pc = "check"

----------------------------------------------------------------------------
(* C12: traversal is depth-first in document order: when the crawl call    *)
(* made on a fresh crawler has returned, the sequence of fetches is the    *)
(* depth-first pre-order of the in-scope link graph from the seed, each    *)
(* page's links taken in document order.                                   *)

RECURSIVE DfsVisit(_, _, _), DfsLinks(_, _, _, _)
\* the pre-order acc extended by the traversal from u
DfsVisit(u, base, acc) ==
    IF u \in Range(acc) THEN acc
    ELSE IF Succeeded(u)
         THEN DfsLinks(web[u].body.hrefs, 1, base, Append(acc, u))
         ELSE Append(acc, u)

\* the pre-order acc extended by the traversals from the in-scope links
\* i, i + 1, ... of a page
DfsLinks(hrefs, i, base, acc) ==
    IF i > Len(hrefs) THEN acc
    ELSE IF /\ Truthy(hrefs[i])
            /\ ~UrljoinRaises(base, hrefs[i])
            /\ StartsWith(urljoin(base, hrefs[i]), base)
         THEN DfsLinks(hrefs, i + 1, base,
                       DfsVisit(urljoin(base, hrefs[i]), base, acc))
         ELSE DfsLinks(hrefs, i + 1, base, acc)

C12_FetchesInDfsPreorder ==
    \A t \in DOMAIN stack :
        (Returned(t) /\ calls = 1)
            => fetched = DfsVisit(call[t].seed, CallBase(t), <<>>)

RECURSIVE DfsVisitCut(_, _, _), DfsLinksCut(_, _, _, _)
\* the same traversal, a page's links ending at its first malformed href
DfsVisitCut(u, base, acc) ==
    IF u \in Range(acc) THEN acc
    ELSE IF Succeeded(u)
         THEN DfsLinksCut(web[u].body.hrefs, 1, base, Append(acc, u))
         ELSE Append(acc, u)

DfsLinksCut(hrefs, i, base, acc) ==
    IF i > Len(hrefs) THEN acc
    ELSE IF ~Truthy(hrefs[i]) THEN DfsLinksCut(hrefs, i + 1, base, acc)
    ELSE IF UrljoinRaises(base, hrefs[i]) THEN acc
    ELSE IF StartsWith(urljoin(base, hrefs[i]), base)
         THEN DfsLinksCut(hrefs, i + 1, base,
                          DfsVisitCut(urljoin(base, hrefs[i]), base, acc))
         ELSE DfsLinksCut(hrefs, i + 1, base, acc)

\* what the code does keep: the fetches are the pre-order of the links the
\* loops got to
C12_FetchesInDfsPreorderOfLinksReached ==
    \A t \in DOMAIN stack :
        (Returned(t) /\ calls = 1)
            => fetched = DfsVisitCut(call[t].seed, CallBase(t), <<>>)

----------------------------------------------------------------------------
(* C13: search and print_results are read-only: a step that changes the    *)
(* index or the visited set is never a step of search or print_results;    *)
(* it is a step of a crawl call under way.                                 *)
C13_SearchReadOnly ==
    [][(index' # index \/ visited' # visited)
          => /\ query' = query
             /\ results' = results
             /\ output' = output
             /\ \E t \in DOMAIN stack : ~Idle(t)]_vars

\* a search found pages in an index of several entries and its results were
\* printed, after crawl calls that had changed both index and visited set
C13_Witness ==
    /\ query.made
    /\ output.made
    /\ Len(results) >= 1
    /\ Len(index) >= 2
    /\ index = query.index
    /\ Cardinality(visited) > Len(index)

----------------------------------------------------------------------------
(* C14: print_results prints, for a non-empty list, "Search results:" and  *)
(* then one line "- <result>" per result in list order, and for the empty  *)
(* list the one line "No results found.".                                  *)
C14_PrintResultsLines ==
    output.made =>
        /\ (output.arg # <<>>) =>
              /\ Len(output.lines) = Len(output.arg) + 1
              /\ output.lines[1] = <<"Search results:">>
              /\ \A i \in 1..Len(output.arg) :
                    output.lines[i + 1] = <<"- ">> \o output.arg[i]
        /\ (output.arg = <<>>) => output.lines = << <<"No results found.">> >>

\* a list of two results has been printed
C14_Witness ==
    /\ output.made
    /\ Len(output.arg) >= 2
    /\ Len(output.lines) = 3

----------------------------------------------------------------------------
(* C15: the effective base is fixed by the top-level crawl call: every     *)
(* frame of the call, at every depth, has that same base; every crawl call *)
(* entered for a link is for the href resolved against that base, not      *)
(* against the page, and passed the prefix test against that base; every   *)
(* link passed over as external failed the test against that base.         *)

\* base_url or url of the top-level call
CallScope(t) ==
    IF call[t].base_url # <<>> THEN call[t].base_url ELSE call[t].seed

\* base_url or url of a frame
FrameScope(f) == IF f.base_url # <<>> THEN f.base_url ELSE f.url

C15_BaseThreadedUnchanged ==
    [][\A t \in DOMAIN stack :
          /\ \A k \in 1..Len(stack'[t]) : FrameScope(stack'[t][k]) = CallScope(t)'
          /\ (AtLink(t) /\ Len(stack'[t]) = Len(stack[t]) + 1)
                => LET new == stack'[t][Len(stack'[t])]
                   IN  /\ new.url = urljoin(CallScope(t), Href(Top(t)))
                       /\ new.base_url = CallScope(t)
                       /\ StartsWith(new.url, CallScope(t))
          /\ (/\ AtLink(t)
              /\ Len(stack'[t]) = Len(stack[t])
              /\ stack'[t] # stack[t]
              /\ Truthy(Href(Top(t))))
                => ~StartsWith(urljoin(CallScope(t), Href(Top(t))), CallScope(t))
      ]_vars

\* three frames deep, the page https://example.com/about had a fragment-only
\* link and the call entered for it is for the base with that fragment
C15_Witness ==
    \E t \in DOMAIN stack :
        /\ Len(stack[t]) >= 3
        /\ call[t].seed = <<EX>>
        /\ stack[t][Len(stack[t]) - 1].url = <<EX, ABOUT>>
        /\ EnteredBy(stack[t], Len(stack[t]) - 1) = <<FRAG>>
        /\ Top(t).url = <<EX, FRAG>>
        /\ Top(t).pc = "get"

----------------------------------------------------------------------------
(* C16: a link found on a successfully fetched page is recursed into iff   *)
(* it has an href and its resolved URL starts with the effective base as a *)
(* literal prefix: a crawl call is entered only for such a link, a link    *)
(* the loop passes over is not such a link, and when the page's crawl      *)
(* returns every such link of the page has been recursed into.             *)

\* link k of frame f has an href whose resolved URL starts with the base
HasPrefix(f, k) ==
    /\ Truthy(f.links[k])
    /\ ~UrljoinRaises(FrameScope(f), f.links[k])
    /\ StartsWith(urljoin(FrameScope(f), f.links[k]), FrameScope(f))

C16_RecursedIffPrefix ==
    [][\A t \in DOMAIN stack :
          /\ (AtLink(t) /\ Len(stack'[t]) = Len(stack[t]) + 1)
                => /\ HasPrefix(Top(t), Top(t).i)
                   /\ stack'[t][Len(stack'[t])].url
                          = urljoin(FrameScope(Top(t)), Href(Top(t)))
          /\ (AtLink(t) /\ Len(stack'[t]) = Len(stack[t]) /\ stack'[t] # stack[t])
                => ~HasPrefix(Top(t), Top(t).i)
          /\ (At(t, "loop") /\ stack'[t] = Popped(stack[t]))
                => \A k \in 1..Len(Top(t).links) :
                       HasPrefix(Top(t), k) => k < Top(t).i
      ]_vars

\* what the code does keep: another host that shares the prefix is crawled
\* and a URL of the same host that does not share it is passed over
C16_PrefixNotHost ==
    [][\A t \in DOMAIN stack :
          AtLink(t) /\ Truthy(Href(Top(t))) /\ stack'[t] # Popped(stack[t])
              => LET r == urljoin(FrameScope(Top(t)), Href(Top(t)))
                 IN  (Len(stack'[t]) = Len(stack[t]) + 1)
                         <=> StartsWith(r, FrameScope(Top(t)))]_vars

----------------------------------------------------------------------------
(* C17: the visited set only grows: no step of any crawl or search call    *)
(* takes a URL out of it, a failed fetch and a later call with another     *)
(* seed included.                                                          *)
C17_VisitedOnlyGrows == [][visited \subseteq visited']_vars

\* a second call, with a seed the first had not visited, has returned and a
\* search was made; a URL that failed in the first call is still visited
C17_Witness ==
    \E t \in DOMAIN stack :
        /\ Returned(t)
        /\ calls = 2
        /\ call[t].seed \notin call[t].visited0
        /\ \E u \in call[t].visited0 : Failed(u) /\ u \in visited
        /\ query.made

----------------------------------------------------------------------------
(* C18: index entries are write-once: a step either leaves the index as it *)
(* is or appends one entry for a URL that had none; no entry is ever       *)
(* rewritten, moved or removed.                                            *)
C18_IndexWriteOnce ==
    [][\/ index' = index
       \/ /\ Len(index') = Len(index) + 1
          /\ SubSeq(index', 1, Len(index)) = index
          /\ index'[Len(index')].url \notin IndexKeys(index)]_vars

\* two calls have each added entries to the index
C18_Witness ==
    \E t \in DOMAIN stack :
        /\ Returned(t)
        /\ calls = 2
        /\ Len(call[t].index0) >= 1
        /\ Len(index) > Len(call[t].index0)
        /\ \E u \in visited : Failed(u)

----------------------------------------------------------------------------
(* C20: in every state the keys of the index are visited URLs, and a URL   *)
(* is in the visited set before the step that fetches it and before the    *)
(* step that writes its index entry.                                       *)
C20_VisitedBeforeFetchAndIndex ==
    [][/\ IndexKeys(index') \subseteq visited'
       /\ Len(fetched') > Len(fetched)
             => fetched'[Len(fetched')] \in visited
       /\ \A u \in IndexKeys(index') \ IndexKeys(index) : u \in visited]_vars

\* pages are indexed and a visited URL that failed is not
C20_Witness ==
    /\ Quiet
    /\ Len(index) >= 2
    /\ IndexKeys(index) # visited
    /\ Range(fetched) = visited

----------------------------------------------------------------------------
(* C19: the membership check and the insertion act as one atomic step:     *)
(* when crawl calls run concurrently on one crawler, in every interleaving *)
(* no URL is passed to requests.get by two of them.                        *)
C19_AtMostOneFetchesUrl == Cardinality(Range(fetched)) = Len(fetched)

====
